---- MODULE Spec2Model ----
(***************************************************************************)
(* Model of package zaplog (src/log/zap): the level-partitioned sink       *)
(* router (level_enabler.go) and the logger facade (logger.go).            *)
(*                                                                         *)
(* Three specifications share the variables below:                         *)
(*   SpecLevels  GetLevels / levelAndAbove.EnableLevels as pure functions  *)
(*   Spec        one goroutine builds the global logger (InitLogger, as    *)
(*               the tests' init() does) and then uses the facade:         *)
(*               AtomicSetLoggerLevel and the leveled log calls            *)
(*   SpecInit    several goroutines race through InitLogger (sync.Once),   *)
(*               and Sync is called on the installed logger                *)
(***************************************************************************)
EXTENDS Integers, Sequences, FiniteSets, TLC

VARIABLES
    arg,            \* SpecLevels: the threshold handed to EnableLevels/GetLevels
    levelsResult,   \* SpecLevels: outcome of GetLevels(arg)
    mapResult,      \* SpecLevels: outcome of levelAndAbove(arg).EnableLevels()
    probe,          \* SpecLevels: last predicate evaluation (key, input, verdict)
    logger,         \* global *zap.Logger        (logger.go:17)
    sugaredLogger,  \* global *zap.SugaredLogger (logger.go:18)
    atomicLevel,    \* global zap.AtomicLevel    (logger.go:20)
    onceDone,       \* sync.Once: done flag      (logger.go:19)
    onceM,          \* sync.Once: mutex holder, 0 when free
    pc,             \* per caller: position inside InitLogger
    opts,           \* per caller: the options passed to InitLogger
    newLoggerCalls, \* number of times NewLogger was entered
    winner,         \* the caller whose closure ran inside once.Do, 0 if none
    firstBuilt,     \* the logger the first returning NewLogger handed back
    lastSet,        \* level of the last call that set the threshold
    logCall,        \* the log call in progress: what it wrote, how it ends
    sync            \* the Sync call in progress / last finished

vars == <<arg, levelsResult, mapResult, probe, logger, sugaredLogger,
          atomicLevel, onceDone, onceM, pc, opts, newLoggerCalls, winner,
          firstBuilt, lastSet, logCall, sync>>

levelVars  == <<arg, levelsResult, mapResult, probe>>
globalVars == <<logger, sugaredLogger, atomicLevel>>
onceVars   == <<onceDone, onceM, pc, opts, newLoggerCalls, winner, firstBuilt>>
useVars    == <<lastSet, logCall>>

-----------------------------------------------------------------------------
(* Bounds *)

\* how far below _minLevel and above _maxLevel the level inputs reach
OutOfRange == 2
\* number of goroutines calling InitLogger concurrently
NumCallers == 2

-----------------------------------------------------------------------------
(* zapcore.Level: an int8; Debug = -1 .. Fatal = 5 *)

MinLevel    == -1
MaxLevel    == 5
InfoLevel   == 0
ErrorLevel  == 2
DPanicLevel == 3
PanicLevel  == 4

Levels      == MinLevel..MaxLevel
LevelInputs == (MinLevel - OutOfRange)..(MaxLevel + OutOfRange)

LevelNames == <<"debug", "info", "warn", "error", "dpanic", "panic", "fatal">>

\* zapcore.Level.String(), used for the file name of a level
LevelString(l) ==
    IF l \in Levels THEN LevelNames[l - MinLevel + 1] ELSE "Level(n)"

-----------------------------------------------------------------------------
(* level_enabler.go *)

NoSlice == << >>

\* GetLevels: panics outside [_minLevel, _maxLevel], else lvl, lvl+1, .., _maxLevel
GetLevelsLowOnly(lvl) ==
    IF lvl < MinLevel
    THEN [panic |-> TRUE, val |-> NoSlice]
    ELSE [panic |-> FALSE,
          val |-> [i \in 1..(IF MaxLevel - lvl + 1 > 0 THEN MaxLevel - lvl + 1 ELSE 0)
                     |-> lvl + (i - 1)]]

GetLevels(lvl) ==
    IF lvl < MinLevel \/ lvl > MaxLevel
    THEN [panic |-> TRUE, val |-> NoSlice]
    ELSE [panic |-> FALSE,
          val |-> [i \in 1..(MaxLevel - lvl + 1) |-> lvl + (i - 1)]]

\* The closure built in iteration i (1-based): it captures the slice and idx.
EnablerShared(levels, i) == [levels |-> levels, idx |-> Len(levels)]

EnablerAt(levels, i) == [levels |-> levels, idx |-> i]

\* Calling a zap.LevelEnablerFunc built by EnableLevels
CallEnablerAtLeast(f, lvl) == lvl >= f.levels[f.idx]

CallEnabler(f, lvl) == lvl = f.levels[f.idx]

\* levelAndAbove(l).EnableLevels(): the map written by the loop; a later
\* iteration overwrites an earlier one with the same key.
EnableLevels(l) ==
    LET g == GetLevels(l) IN
    IF g.panic
    THEN [panic |-> TRUE, val |-> << >>]
    ELSE LET levels == g.val
             keys   == {levels[i] : i \in DOMAIN levels}
             last(k) == CHOOSE i \in DOMAIN levels :
                           /\ levels[i] = k
                           /\ \A j \in DOMAIN levels : levels[j] = k => j <= i
         IN [panic |-> FALSE,
             val |-> [k \in keys |-> EnablerAt(levels, last(k))]]

NoArg   == [given |-> FALSE, lvl |-> 0]
NoProbe == [done |-> FALSE, key |-> 0, input |-> 0, verdict |-> FALSE]
NoCall  == [called |-> FALSE, panic |-> FALSE, val |-> << >>]

\* a caller evaluates GetLevels(t) and levelAndAbove(t).EnableLevels()
CallEnableLevels(t) ==
    /\ arg' = [given |-> TRUE, lvl |-> t]
    /\ levelsResult' = [called |-> TRUE] @@ GetLevels(t)
    /\ mapResult' = [called |-> TRUE] @@ EnableLevels(t)
    /\ probe' = NoProbe
    /\ UNCHANGED <<globalVars, onceVars, useVars, sync>>

\* a caller applies the predicate stored under key s to severity l
ProbeEnabler(s, l) ==
    /\ mapResult.called
    /\ ~mapResult.panic
    /\ s \in DOMAIN mapResult.val
    /\ probe' = [done |-> TRUE, key |-> s, input |-> l,
                 verdict |-> CallEnabler(mapResult.val[s], l)]
    /\ UNCHANGED <<arg, levelsResult, mapResult, globalVars, onceVars, useVars, sync>>

-----------------------------------------------------------------------------
(* level_enabler.go, second part: logOptions *)

\* what logger.Sync() and sugaredLogger.Sync() may return
NoErr      == "nil"
FirstErrs  == {NoErr, "errLoggerSync"}
SecondErrs == {NoErr, "errSugarSync"}

\* defaultLogOptions: the fields NewLogger's branches read
defaultLogOptions == [logPath |-> "", development |-> FALSE, logLevel |-> MinLevel]

\* logOpts := defaultLogOptions, then every Option applied to it: WithLogPath,
\* Development and WithLogLevel given or not. serviceName and the rotation
\* durations only name and age the files, the same for every core of one
\* logger, so they are left out.
LogPaths == {"", "../"}
Options  ==
    {[defaultLogOptions EXCEPT !.logPath = lp, !.development = d, !.logLevel = l] :
        lp \in LogPaths, d \in BOOLEAN, l \in LevelInputs}

-----------------------------------------------------------------------------
(* logger.go: NewLogger *)

NilLogger == [nil |-> TRUE]
NilSugar  == [nil |-> TRUE]
ZeroLevel == [ok |-> FALSE, l |-> 0]          \* zero zap.AtomicLevel: no cell

\* zap.NewAtomicLevelAt
NewAtomicLevelAt(l) == [ok |-> TRUE, l |-> l]

Stderr == [dir |-> "", name |-> "stderr"]

\* zapcore.NewCore(consoleEncoder, os.Stderr, atomicLevel): the enabler is the
\* shared cell itself. (A zapcore.Level is a LevelEnabler too: a fixed threshold.)
ConsoleCoreFixed(o) ==
    [enc |-> "console", dest |-> Stderr, enab |-> [kind |-> "level", l |-> o.logLevel]]

ConsoleCore(o) ==
    [enc |-> "console", dest |-> Stderr, enab |-> [kind |-> "atomic"]]

\* the rotating file of one level: <logPath>/<pod>/<service>/<level>.%Y-%m-%d.log
FilePathShared(o, level) == [dir |-> o.logPath, name |-> "app"]

FilePath(o, level) == [dir |-> o.logPath, name |-> LevelString(level)]

\* zapcore.NewCore(jsonEncoder, writeSyncer, levelEnablerFunc)
FileCoreAtomic(o, level, levelEnablerFunc) ==
    [enc |-> "json", dest |-> FilePath(o, level), enab |-> [kind |-> "atomic"]]

FileCore(o, level, levelEnablerFunc) ==
    [enc |-> "json", dest |-> FilePath(o, level),
     enab |-> [kind |-> "func", f |-> levelEnablerFunc]]

\* the orders in which a range over a map with key set S may visit the keys
RECURSIVE RangeOrders(_)
RangeOrders(S) ==
    IF S = {} THEN {<< >>}
    ELSE UNION {{<<x>> \o r : r \in RangeOrders(S \ {x})} : x \in S}

PanicOutcome == [panic |-> TRUE]

\* the development-or-no-path test of NewLogger
UseConsole(o) == o.logPath = "" \/ o.development = TRUE

\* NewLogger(opts...): every outcome the call can have. The production branch
\* ranges over the level map in an unspecified order, and MkdirAll or
\* rotatelogs.New may fail (fsOK = FALSE), which panics.
NewLogger(o) ==
    LET level == NewAtomicLevelAt(o.logLevel) IN
    IF UseConsole(o)
    THEN {[panic |-> FALSE, level |-> level,
           logger |-> [nil |-> FALSE, cores |-> <<ConsoleCore(o)>>,
                       development |-> o.development]]}
    ELSE LET m == EnableLevels(level.l) IN
         IF m.panic THEN {PanicOutcome}
         ELSE {PanicOutcome} \cup
              {[panic |-> FALSE, level |-> level,
                logger |-> [nil |-> FALSE,
                            cores |-> [i \in DOMAIN order |->
                                         FileCore(o, order[i], m.val[order[i]])],
                            development |-> o.development]] :
                 order \in RangeOrders(DOMAIN m.val)}

\* logger.Sugar()
Sugar(l) == [nil |-> FALSE, base |-> l]

-----------------------------------------------------------------------------
(* logger.go: the facade *)

\* zapcore.Core.Enabled of one core: its LevelEnabler is the shared cell
\* (cur is the value the cell holds), a fixed level, or a LevelEnablerFunc
CoreEnabled(core, lvl, cur) ==
    CASE core.enab.kind = "atomic" -> lvl >= cur
      [] core.enab.kind = "level"  -> lvl >= core.enab.l
      [] OTHER                     -> CallEnabler(core.enab.f, lvl)

\* the destinations the tee writes an entry of severity lvl to, in core order
WrittenTo(l, lvl, cur) ==
    LET hit == SelectSeq(l.cores, LAMBDA c : CoreEnabled(c, lvl, cur))
    IN [i \in DOMAIN hit |-> hit[i].dest]

\* what the log call does after writing
AfterWrite(l, lvl) ==
    CASE lvl = MaxLevel -> "exit"
      [] lvl = PanicLevel -> "panic"
      [] lvl = DPanicLevel /\ l.development -> "panic"
      [] OTHER -> "return"

NoSet == [set |-> FALSE, lvl |-> 0]
NoLog == [logged |-> FALSE, sev |-> 0, written |-> << >>, effect |-> "return"]

\* the goroutine is between two calls of the facade
Ready == ~logCall.logged

\* Debug, Info, Warn, Error, DPanic, Panic, Fatal and their f/w variants:
\* the entry is offered to every core of the tee and written by those enabled
Log(s) ==
    /\ Ready
    /\ ~logger.nil
    /\ logCall' = [logged |-> TRUE, sev |-> s,
                   written |-> WrittenTo(logger, s, atomicLevel.l),
                   effect |-> AfterWrite(logger, s)]
    /\ UNCHANGED <<levelVars, globalVars, onceVars, lastSet, sync>>

\* the log call is over: it returned, or panicked and was recovered;
\* after Fatal the process has exited and nothing follows
LogReturn ==
    /\ logCall.logged
    /\ logCall.effect # "exit"
    /\ logCall' = NoLog
    /\ UNCHANGED <<levelVars, globalVars, onceVars, lastSet, sync>>

\* AtomicSetLoggerLevel(lvl): atomicLevel.SetLevel(lvl)
AtomicSetLoggerLevel(lvl) ==
    /\ Ready
    /\ atomicLevel.ok
    /\ atomicLevel' = [atomicLevel EXCEPT !.l = lvl]
    /\ lastSet' = [set |-> TRUE, lvl |-> lvl]
    /\ UNCHANGED <<levelVars, logger, sugaredLogger, onceVars, logCall, sync>>

\* AtomicLevelHandler, PUT {"level": name}: a name zap does not know is
\* answered with a client error and changes nothing.
AtomicLevelHandler(name) ==
    /\ Ready
    /\ atomicLevel.ok
    /\ \E l \in Levels :
          /\ LevelString(l) = name
          /\ atomicLevel' = [atomicLevel EXCEPT !.l = l]
          /\ lastSet' = [set |-> TRUE, lvl |-> l]
    /\ UNCHANGED <<levelVars, logger, sugaredLogger, onceVars, logCall, sync>>

-----------------------------------------------------------------------------
(* logger.go: InitLogger, through sync.Once *)

Callers == 1..NumCallers
NoOpts  == [none |-> TRUE]

\* the options the racing callers of SpecInit choose from
InitLevels  == {ErrorLevel, MaxLevel + 1}
InitOptions == {o \in Options : o.logLevel \in InitLevels}

\* once.Do, doSlow: under the mutex, f runs only if done is still 0
OnceRunsAlways == TRUE

OnceRuns == ~onceDone

\* InitLogger(opts...) entered: once.Do loads done; 1 returns at once, 0 goes
\* on to doSlow and queues for the mutex
CallInitLogger(p, o) ==
    /\ pc[p] = "idle"
    /\ opts' = [opts EXCEPT ![p] = o]
    /\ pc' = [pc EXCEPT ![p] = IF onceDone THEN "returned" ELSE "lock"]
    /\ UNCHANGED <<levelVars, globalVars, onceDone, onceM, newLoggerCalls, winner,
                   firstBuilt, useVars, sync>>

\* doSlow: the mutex is taken; if done was set meanwhile it is released again
\* and the call returns, otherwise the closure is about to run
DoSlow(p) ==
    /\ pc[p] = "lock"
    /\ onceM = 0
    /\ IF OnceRuns
       THEN /\ onceM' = p
            /\ pc' = [pc EXCEPT ![p] = "f"]
       ELSE /\ onceM' = 0
            /\ pc' = [pc EXCEPT ![p] = "returned"]
    /\ UNCHANGED <<levelVars, globalVars, onceDone, opts, newLoggerCalls, winner,
                   firstBuilt, useVars, sync>>

\* the closure: logger, atomicLevel = NewLogger(opts...). A panic unwinds
\* through doSlow's deferred done.Store(1) and m.Unlock() and leaves InitLogger.
RunNewLogger(p) ==
    /\ pc[p] = "f"
    /\ newLoggerCalls' = newLoggerCalls + 1
    /\ winner' = p
    /\ \E out \in NewLogger(opts[p]) :
          IF out.panic
          THEN /\ onceDone' = TRUE
               /\ onceM' = 0
               /\ pc' = [pc EXCEPT ![p] = "panicked"]
               /\ UNCHANGED <<logger, atomicLevel, firstBuilt>>
          ELSE /\ logger' = out.logger
               /\ atomicLevel' = out.level
               /\ firstBuilt' = IF firstBuilt.nil THEN out.logger ELSE firstBuilt
               /\ pc' = [pc EXCEPT ![p] = "sugar"]
               /\ UNCHANGED <<onceDone, onceM>>
    /\ UNCHANGED <<levelVars, sugaredLogger, opts, useVars, sync>>

\* the closure: sugaredLogger = logger.Sugar()
AssignSugar(p) ==
    /\ pc[p] = "sugar"
    /\ sugaredLogger' = Sugar(logger)
    /\ pc' = [pc EXCEPT ![p] = "finish"]
    /\ UNCHANGED <<levelVars, logger, atomicLevel, onceDone, onceM, opts,
                   newLoggerCalls, winner, firstBuilt, useVars, sync>>

\* the closure returned: deferred done.Store(1), m.Unlock(); InitLogger returns
FinishOnce(p) ==
    /\ pc[p] = "finish"
    /\ onceDone' = TRUE
    /\ onceM' = 0
    /\ pc' = [pc EXCEPT ![p] = "returned"]
    /\ UNCHANGED <<levelVars, globalVars, opts, newLoggerCalls, winner, firstBuilt,
                   useVars, sync>>

\* InitLogger(opts...) run to its end by the only goroutine there is
\* (the package's init()): CallInitLogger, DoSlow, the closure, FinishOnce.
Startup(o) ==
    /\ pc[1] = "idle"
    /\ ~onceDone
    /\ onceM = 0
    /\ OnceRuns
    /\ opts' = [opts EXCEPT ![1] = o]
    /\ newLoggerCalls' = newLoggerCalls + 1
    /\ winner' = 1
    /\ onceDone' = TRUE
    /\ \E out \in NewLogger(o) :
          IF out.panic
          THEN /\ pc' = [pc EXCEPT ![1] = "panicked"]
               /\ UNCHANGED <<globalVars, firstBuilt>>
          ELSE /\ logger' = out.logger
               /\ atomicLevel' = out.level
               /\ firstBuilt' = IF firstBuilt.nil THEN out.logger ELSE firstBuilt
               /\ sugaredLogger' = Sugar(out.logger)
               /\ pc' = [pc EXCEPT ![1] = "returned"]
    /\ UNCHANGED <<levelVars, onceM, useVars, sync>>

-----------------------------------------------------------------------------
(* logger.go: Sync *)

NoSync == [done |-> FALSE, err1 |-> NoErr, err2 |-> NoErr,
           loggerSyncs |-> 0, sugarSyncs |-> 0, ret |-> NoErr]

\* Sync's body, given what logger.Sync() and sugaredLogger.Sync() return
SyncBodyEarlyReturn(e1, e2) ==
    IF e1 # NoErr
    THEN [loggerSyncs |-> 1, sugarSyncs |-> 0, ret |-> e1]
    ELSE [loggerSyncs |-> 1, sugarSyncs |-> 1, ret |-> e2]

SyncBody(e1, e2) ==
    IF e1 # NoErr
    THEN [loggerSyncs |-> 1, sugarSyncs |-> 1, ret |-> e1]
    ELSE [loggerSyncs |-> 1, sugarSyncs |-> 1, ret |-> e2]

\* Sync() by a goroutine that came back from InitLogger with a logger;
\* the two flushes succeed or fail as the writers decide
Sync(e1, e2) ==
    /\ \E p \in Callers : pc[p] = "returned"
    /\ ~logger.nil
    /\ ~sugaredLogger.nil
    /\ sync' = [done |-> TRUE, err1 |-> e1, err2 |-> e2] @@ SyncBody(e1, e2)
    /\ UNCHANGED <<levelVars, globalVars, onceVars, useVars>>

-----------------------------------------------------------------------------
(* Specifications *)

InitFacade ==
    /\ logger = NilLogger
    /\ sugaredLogger = NilSugar
    /\ atomicLevel = ZeroLevel
    /\ onceDone = FALSE
    /\ onceM = 0
    /\ pc = [p \in Callers |-> "idle"]
    /\ opts = [p \in Callers |-> NoOpts]
    /\ newLoggerCalls = 0
    /\ winner = 0
    /\ firstBuilt = NilLogger
    /\ lastSet = NoSet
    /\ logCall = NoLog
    /\ sync = NoSync

InitLevelVars ==
    /\ arg = NoArg
    /\ levelsResult = NoCall
    /\ mapResult = NoCall
    /\ probe = NoProbe

Init == InitFacade /\ InitLevelVars

\* one goroutine: build the global logger, then use it
Next ==
    \/ \E o \in Options : Startup(o)
    \/ \E l \in LevelInputs : AtomicSetLoggerLevel(l)
    \/ \E n \in {LevelNames[i] : i \in DOMAIN LevelNames} : AtomicLevelHandler(n)
    \/ \E s \in Levels : Log(s)
    \/ LogReturn

Spec == Init /\ [][Next]_vars

\* racing first-time callers of InitLogger, and Sync afterwards
NextInit ==
    \/ \E p \in Callers, o \in InitOptions : CallInitLogger(p, o)
    \/ \E p \in Callers : DoSlow(p)
    \/ \E p \in Callers : RunNewLogger(p)
    \/ \E p \in Callers : AssignSugar(p)
    \/ \E p \in Callers : FinishOnce(p)
    \/ \E e1 \in FirstErrs, e2 \in SecondErrs : Sync(e1, e2)

SpecInit == Init /\ [][NextInit]_vars

\* the router's functions applied to every threshold
NextLevels ==
    \/ \E t \in LevelInputs : CallEnableLevels(t)
    \/ \E s \in Levels, l \in Levels : ProbeEnabler(s, l)

SpecLevels == Init /\ [][NextLevels]_vars

-----------------------------------------------------------------------------
(* Properties *)

Range(q) == {q[i] : i \in DOMAIN q}

\* the global logger was built by the production branch / the console branch
\* of NewLogger from the options of the caller that ran the closure
Built      == winner # 0 /\ ~logger.nil
Production == Built /\ opts[winner].logPath # "" /\ ~opts[winner].development
Console    == Built /\ (opts[winner].logPath = "" \/ opts[winner].development)

\* the file an entry of severity s belongs to under the options o
FileOf(o, s) == [dir |-> o.logPath, name |-> LevelNames[s - MinLevel + 1]]

\* C1: for every threshold t in Debug..Fatal the map returned by
\* levelAndAbove(t).EnableLevels() has exactly the keys t..Fatal, and the
\* predicate under key s accepts s and rejects every other severity, the
\* greater ones included.
C1_EnableLevelsExact ==
    (arg.given /\ arg.lvl \in Levels) =>
        /\ ~mapResult.panic
        /\ DOMAIN mapResult.val = {s \in Levels : s >= arg.lvl}
        /\ \A s \in DOMAIN mapResult.val : \A l \in Levels :
              CallEnabler(mapResult.val[s], l) <=> (l = s)
        /\ probe.done => (probe.verdict <=> (probe.input = probe.key))

C1_Witness ==
    /\ arg.given /\ arg.lvl = MinLevel
    /\ probe.done
    /\ probe.key = InfoLevel
    /\ probe.input = MaxLevel
    /\ ~probe.verdict

\* C2: for every threshold below Debug or above Fatal, GetLevels and
\* EnableLevels panic and return neither a level list nor a map.
C2_InvalidThresholdPanics ==
    (arg.given /\ arg.lvl \notin Levels) =>
        /\ levelsResult.panic /\ levelsResult.val = << >>
        /\ mapResult.panic /\ mapResult.val = << >>

C2_Witness ==
    /\ arg.given
    /\ arg.lvl > MaxLevel
    /\ levelsResult.called /\ levelsResult.panic
    /\ mapResult.called /\ mapResult.panic

\* what a caller back from InitLogger sees when construction succeeded
FullyConstructed ==
    /\ ~logger.nil
    /\ ~sugaredLogger.nil
    /\ sugaredLogger.base = logger
    /\ atomicLevel = NewAtomicLevelAt(opts[winner].logLevel)
    /\ \E out \in NewLogger(opts[winner]) : ~out.panic /\ out.logger = logger

NeverReplaced == ~firstBuilt.nil => logger = firstBuilt

\* C3 as claimed: under any interleaving of InitLogger calls NewLogger runs
\* exactly once, the globals are those of the winning call, and every caller
\* that has returned from InitLogger observes the same fully constructed
\* logger and sugaredLogger.
C3_Original ==
    /\ newLoggerCalls <= 1
    /\ \A p \in Callers : pc[p] = "returned" =>
          newLoggerCalls = 1 /\ FullyConstructed

\* C3 amended: NewLogger runs at most once, and exactly once before any
\* caller returns; the globals, once assigned, are never replaced; a caller
\* that has returned observes the fully constructed logger of the winning
\* call when that call's NewLogger returned, and nil globals when it panicked.
C3_OnceOnly ==
    /\ newLoggerCalls <= 1
    /\ NeverReplaced
    /\ \A p \in Callers : pc[p] = "returned" =>
          /\ newLoggerCalls = 1
          /\ winner \in Callers
          /\ IF pc[winner] = "panicked"
             THEN logger.nil /\ sugaredLogger.nil /\ ~atomicLevel.ok
             ELSE FullyConstructed

C3_Witness ==
    \E p, q \in Callers :
        /\ p # q
        /\ pc[p] = "returned" /\ pc[q] = "returned"
        /\ opts[p] # opts[q]
        /\ winner = p
        /\ FullyConstructed

\* the logger of the test: production mode, built at Debug, threshold then
\* set to Error, and an entry logged
AfterSetError ==
    /\ Production
    /\ opts[winner].logLevel = MinLevel
    /\ lastSet.set /\ lastSet.lvl = ErrorLevel
    /\ atomicLevel.l = ErrorLevel
    /\ logCall.logged

\* C4 as claimed: in production mode built at Debug, after
\* AtomicSetLoggerLevel(Error) an Info entry does not appear in the info file
\* while an Error entry appears in the error file.
C4_Original ==
    AfterSetError =>
        /\ logCall.sev = InfoLevel =>
              FileOf(opts[winner], InfoLevel) \notin Range(logCall.written)
        /\ logCall.sev = ErrorLevel =>
              FileOf(opts[winner], ErrorLevel) \in Range(logCall.written)

\* C4 amended: in production mode built at Debug, after
\* AtomicSetLoggerLevel(Error) an Info entry is still written to the info
\* file, and only there, and an Error entry to the error file, and only there.
C4_InfoStillWritten ==
    AfterSetError =>
        /\ logCall.sev = InfoLevel =>
              logCall.written = <<FileOf(opts[winner], InfoLevel)>>
        /\ logCall.sev = ErrorLevel =>
              logCall.written = <<FileOf(opts[winner], ErrorLevel)>>

C4_Witness ==
    /\ AfterSetError
    /\ logCall.sev = InfoLevel
    /\ logCall.written = <<FileOf(opts[winner], InfoLevel)>>

\* C5: in production mode AtomicSetLoggerLevel leaves the cores and their
\* predicates unchanged: after any sequence of calls every severity is routed
\* to the same file (or to none) as right after construction.
C5_RoutingFixed ==
    Production =>
        /\ logger = firstBuilt
        /\ \A s \in Levels :
              WrittenTo(logger, s, atomicLevel.l) = WrittenTo(firstBuilt, s, opts[winner].logLevel)

C5_Witness ==
    /\ Production
    /\ lastSet.set
    /\ atomicLevel.l > opts[winner].logLevel
    /\ logCall.logged
    /\ logCall.sev < atomicLevel.l
    /\ logCall.written # << >>

\* C6: with an empty log path or development on, NewLogger builds one core,
\* console on stderr, and no file; an entry of severity s is emitted iff
\* s >= the value the shared threshold holds at the log call.
C6_ConsoleGatedByThreshold ==
    Console =>
        /\ Len(logger.cores) = 1
        /\ logger.cores[1].dest = Stderr
        /\ logger.cores[1].enc = "console"
        /\ logCall.logged =>
              logCall.written =
                 IF logCall.sev >= atomicLevel.l THEN <<Stderr>> ELSE << >>

C6_Witness ==
    /\ Console
    /\ opts[winner].development /\ opts[winner].logPath # ""
    /\ lastSet.set
    /\ logCall.logged
    /\ logCall.sev >= opts[winner].logLevel
    /\ logCall.sev < atomicLevel.l
    /\ logCall.written = << >>

\* C7: Sync calls sugaredLogger.Sync exactly once whether or not logger.Sync
\* failed; it returns the first flush's error when there is one, and the
\* second flush's result otherwise.
C7_SyncFlushesBoth ==
    sync.done =>
        /\ sync.loggerSyncs = 1
        /\ sync.sugarSyncs = 1
        /\ sync.err1 # NoErr => sync.ret = sync.err1
        /\ sync.err1 = NoErr => sync.ret = sync.err2

C7_Witness ==
    /\ sync.done
    /\ sync.err1 # NoErr
    /\ sync.err2 # NoErr
    /\ sync.err1 # sync.err2
    /\ sync.ret = sync.err1
    /\ sync.sugarSyncs = 1

\* C8 as claimed: the shared threshold cell always holds a member of
\* Debug..Fatal.
C8_ThresholdValid == atomicLevel.ok => atomicLevel.l \in Levels

\* C9 as claimed: NewLogger with a minimum severity outside Debug..Fatal
\* panics instead of returning a logger, whatever the other options.
C9_InvalidLevelAborts ==
    (winner # 0 /\ opts[winner].logLevel \notin Levels) =>
        pc[winner] = "panicked" /\ logger.nil

\* C10: in production mode with minimum severity m NewLogger builds
\* Fatal-m+1 cores, one per severity s >= m, each on the file named after s
\* and no two on the same file; an entry of severity s is written exactly
\* once, to the file of s, when s >= m, and nowhere when s < m, in whatever
\* order the cores were appended.
C10_OneFilePerLevel ==
    Production =>
        LET o == opts[winner]
            m == o.logLevel
            cores == logger.cores
        IN /\ Len(cores) = MaxLevel - m + 1
           /\ {cores[i].dest : i \in DOMAIN cores} = {FileOf(o, s) : s \in m..MaxLevel}
           /\ \A i, j \in DOMAIN cores : cores[i].dest = cores[j].dest => i = j
           /\ logCall.logged =>
                 logCall.written =
                    IF logCall.sev >= m THEN <<FileOf(o, logCall.sev)>> ELSE << >>

C10_Witness ==
    /\ Production
    /\ Len(logger.cores) >= 3
    /\ logger.cores[1].dest.name = "fatal"
    /\ logger.cores[2].dest.name = "error"
    /\ logCall.logged
    /\ logCall.sev = PanicLevel
    /\ logCall.written = <<FileOf(opts[winner], PanicLevel)>>

====
